---- MODULE Spec2Model ----
(***************************************************************************)
(* A model of src/src/election.py: the single-round election simulator.    *)
(*                                                                         *)
(* Issue names are modelled as natural numbers (the code only sorts them   *)
(* and compares them for equality), stances as strings (only compared for  *)
(* equality), importance weights and probabilities as integers             *)
(* (probabilities in percent).  A View refers to its Issue by the issue's  *)
(* position in the registry list `issues` (the object reference of the     *)
(* code).                                                                  *)
(***************************************************************************)
EXTENDS Integers, Sequences, FiniteSets, TLC

VARIABLES
    settings,            \* run_election: the loaded settings document
    issues,              \* run_election: list[Issue], with their vote_totals
    candidates,          \* run_election: list[Candidate] (input order), with votes
    populations,         \* generate_populations: list[Population], with people
    all_people,          \* run_election: the voters that have voted, in voting order
    voted,               \* positions <<population, person>> the voting loop has passed
    ranked,              \* run_election line 287: candidates sorted by votes (as indices)
    winner,              \* run_election line 292 (index into candidates, 0 = unset)
    loser,               \* run_election line 293 (index into candidates, 0 = unset)
    majority_candidate,  \* run_election line 308: the last result
    maj_calls,           \* number of calls of generate_majority_candidate so far
    pc,                  \* position in run_election
    raised               \* the exception that ended the run ("" while none)

vars == <<settings, issues, candidates, populations, all_people, voted, ranked,
          winner, loser, majority_candidate, maj_calls, pc, raised>>

-----------------------------------------------------------------------------
(* Bounds of the model *)

MaxWeight == 1       \* importance weights are drawn from 0..MaxWeight
MaxVoters == 2       \* total number of voters over all populations
MaxCands == 2        \* number of candidates in the settings
MaxCalls == 2        \* calls of generate_majority_candidate on one voter list

-----------------------------------------------------------------------------
(* Python built-ins *)

None == "None"

Range(s) == {s[k] : k \in DOMAIN s}

Min(a, b) == IF a < b THEN a ELSE b

Max(a, b) == IF a > b THEN a ELSE b

RECURSIVE SumSeq(_)
SumSeq(s) == IF s = <<>> THEN 0 ELSE s[1] + SumSeq(Tail(s))

\* sorted(..., reverse=True) wrongly written as sorted(...)[::-1]: equal keys
\* come out in reversed input order.
sorted_unstable(keys, reverse) ==
    LET n == Len(keys)
        Before(i, j) == IF reverse
                        THEN keys[i] > keys[j] \/ (keys[i] = keys[j] /\ i > j)
                        ELSE keys[i] < keys[j] \/ (keys[i] = keys[j] /\ i < j)
        Rank(i) == 1 + Cardinality({j \in 1..n : Before(j, i)})
    IN  [r \in 1..n |-> CHOOSE i \in 1..n : Rank(i) = r]

\* sorted(list, key=..., reverse=...): Python's sort is stable, and with
\* reverse=True elements with equal keys still keep their input order.
\* `keys` is the list of the elements' keys; the result is the list of the
\* input positions in sorted order.
sorted(keys, reverse) ==
    LET n == Len(keys)
        Before(i, j) == IF reverse
                        THEN keys[i] > keys[j] \/ (keys[i] = keys[j] /\ i < j)
                        ELSE keys[i] < keys[j] \/ (keys[i] = keys[j] /\ i < j)
        Rank(i) == 1 + Cardinality({j \in 1..n : Before(j, i)})
    IN  [r \in 1..n |-> CHOOSE i \in 1..n : Rank(i) = r]

\* [lst[i] for i in order]
Pick(lst, order) == [r \in 1..Len(order) |-> lst[order[r]]]

\* len(list(zip(a, b)))
ZipLen(a, b) == Min(Len(a), Len(b))

-----------------------------------------------------------------------------
(* Entities *)

Issue(name, stances) ==
    [name |-> name, stances |-> stances,
     vote_totals |-> [s \in Range(stances) |-> 0]]

\* `issue` is the position of the Issue object in `issues`
View(issue, stance, weight) == [issue |-> issue, stance |-> stance, weight |-> weight]

PopulationView(issue, proportions, weight, weight_variance) ==
    [issue |-> issue, proportions |-> proportions, weight |-> weight,
     weight_variance |-> weight_variance]

IssueName(view) == issues[view.issue].name

\* sorted(views, key=lambda x: x.issue.name)
SortViews(views) == Pick(views, sorted([k \in 1..Len(views) |-> IssueName(views[k])], FALSE))

Candidate(name, views) == [name |-> name, votes |-> 0, views |-> SortViews(views)]

\* a receive_vote that counts the vote twice
receive_vote_twice(c) == [c EXCEPT !.votes = @ + 2]

receive_vote(c) == [c EXCEPT !.votes = @ + 1]

-----------------------------------------------------------------------------
(* Settings the runs are drawn from *)

\* the registry: two issues, declared out of name order
IssueSettings ==
    << [name |-> 2, stances |-> <<"x", "y">>],
       [name |-> 1, stances |-> <<"y", "x">>] >>

\* A declares a legal stance on both issues; C omits issue 1; D declares a
\* stance that issue 1 does not have and a view on an undeclared issue 3
CandidateOptions ==
    { [name |-> "A", views |-> << [issue |-> 2, stance |-> "x"],
                                  [issue |-> 1, stance |-> "y"] >>],
      [name |-> "C", views |-> << [issue |-> 2, stance |-> "y"] >>],
      [name |-> "D", views |-> << [issue |-> 1, stance |-> "z"],
                                  [issue |-> 3, stance |-> "x"] >>] }

\* a population with a view on both issues; one with a view on issue 1 only
\* and a negative mean importance; one whose proportions do not sum to 1
IssueViewsOptions ==
    { << [name |-> 2, weight |-> 1, weight_variance |-> 0,
          stances |-> [x |-> 100, y |-> 0]],
         [name |-> 1, weight |-> 1, weight_variance |-> 1,
          stances |-> [x |-> 50, y |-> 50]] >>,
      << [name |-> 1, weight |-> -1, weight_variance |-> 0,
          stances |-> [x |-> 0, y |-> 100]] >>,
      << [name |-> 1, weight |-> 1, weight_variance |-> 0,
          stances |-> [x |-> 50, y |-> 0]] >> }

SeqsUpTo(S, n) == UNION {[1..k -> S] : k \in 0..n}

PopulationOptions(sizes) ==
    { [name |-> "P", size |-> sz, issue_views |-> ivs] :
        sz \in sizes, ivs \in IssueViewsOptions }

TotalSize(pop_settings) ==
    SumSeq([k \in 1..Len(pop_settings) |-> Max(0, pop_settings[k].size)])

\* no population, one population (possibly of size 0), or two non-empty ones
PopulationSettingsSet ==
    {q \in {<<>>}
           \cup {<<p>> : p \in PopulationOptions(0..MaxVoters)}
           \cup {<<p1, p2>> : p1 \in PopulationOptions(1..MaxVoters),
                              p2 \in PopulationOptions(1..MaxVoters)} :
        TotalSize(q) <= MaxVoters}

SettingsSet ==
    { [issues |-> IssueSettings, candidates |-> cs, populations |-> ps] :
        cs \in SeqsUpTo(CandidateOptions, MaxCands),
        ps \in PopulationSettingsSet }

-----------------------------------------------------------------------------
(* The build phase *)

generate_issues(issue_settings) ==
    LET unsorted == [k \in 1..Len(issue_settings) |->
                        Issue(issue_settings[k].name, issue_settings[k].stances)]
    IN  Pick(unsorted, sorted([k \in 1..Len(unsorted) |-> unsorted[k].name], FALSE))

\* sorted(c['views'], key=lambda x: x['issue'])
SortedCViews(c) == Pick(c.views, sorted([k \in 1..Len(c.views) |-> c.views[k].issue], FALSE))

generate_candidates(candidate_settings, iss) ==
    [n \in 1..Len(candidate_settings) |->
        LET c == candidate_settings[n]
            cviews == SortedCViews(c)
            views == [k \in 1..ZipLen(cviews, iss) |-> View(k, cviews[k].stance, 1)]
        IN  Candidate(c.name, views)]

\* lines 175-182 of generate_populations: one population's list[PopulationView]
pop_views_of(pop, iss) ==
    LET issue_views == Pick(pop.issue_views,
                            sorted([k \in 1..Len(pop.issue_views) |-> pop.issue_views[k].name],
                                   FALSE))
    IN  [k \in 1..ZipLen(issue_views, iss) |->
            PopulationView(k, issue_views[k].stances, issue_views[k].weight,
                           issue_views[k].weight_variance)]

Population(name, size, population_views) ==
    [name |-> name, size |-> size, population_views |-> population_views,
     people |-> <<>>]

-----------------------------------------------------------------------------
(* Person: sampling the views (lines 71-97) *)

\* the exception _decide_views raises on one PopulationView ("" if none)
DecideRaises(pv) ==
    LET possible_stances == issues[pv.issue].stances
        missing == {k \in 1..Len(possible_stances) :
                        possible_stances[k] \notin DOMAIN pv.proportions}
        probabilities == [k \in 1..Len(possible_stances) |->
                            pv.proportions[possible_stances[k]]]
    IN  IF missing # {} THEN "KeyError"                               \* line 91
        ELSE IF \/ SumSeq(probabilities) # 100
                \/ \E k \in 1..Len(probabilities) : probabilities[k] < 0
             THEN "ValueError"                                        \* line 92
        ELSE IF pv.weight_variance < 0 THEN "ValueError"              \* line 96
        ELSE ""

\* np.random.choice(possible_stances, p=probabilities)
StanceChoices(pv) ==
    {s \in Range(issues[pv.issue].stances) : pv.proportions[s] > 0}

\* max(0, np.random.normal(mean_importance, std_importance, 1)[0]): with a
\* standard deviation of 0 the draw is the mean; otherwise any real number,
\* here any of 0..MaxWeight after the clamp.
ImportanceChoices(pv) ==
    IF pv.weight_variance = 0
    THEN {Max(0, pv.weight)}
    ELSE 0..MaxWeight

ViewChoices(pv) ==
    {View(pv.issue, s, w) : s \in StanceChoices(pv), w \in ImportanceChoices(pv)}

\* the view lists _decide_views can build, before the sort
DecideViews(population_views) ==
    LET n == Len(population_views)
        all == UNION {ViewChoices(population_views[k]) : k \in 1..n}
    IN  {vs \in [1..n -> all] : \A k \in 1..n : vs[k] \in ViewChoices(population_views[k])}

PersonRaises(population_views) ==
    LET bad == {k \in 1..Len(population_views) : DecideRaises(population_views[k]) # ""}
    IN  IF bad = {} THEN ""
        ELSE DecideRaises(population_views[CHOOSE k \in bad : \A j \in bad : k <= j])

\* Person.__init__ given the views _decide_views drew
Person(decided) == [views |-> SortViews(decided)]

-----------------------------------------------------------------------------
(* Person.vote (lines 99-116) *)

\* the agreement loop counts the issues agreed on and forgets the weight
RECURSIVE c_agreements_unweighted(_, _, _, _)
c_agreements_unweighted(cviews, pviews, k, acc) ==
    IF k > ZipLen(cviews, pviews) THEN acc
    ELSE c_agreements_unweighted(cviews, pviews, k + 1,
            IF cviews[k].stance = pviews[k].stance THEN acc + 1 ELSE acc)

\* lines 103-108: the loop over zip(c.views, self.views), from pair k on
RECURSIVE c_agreements(_, _, _, _)
c_agreements(cviews, pviews, k, acc) ==
    IF k > ZipLen(cviews, pviews) THEN acc
    ELSE c_agreements(cviews, pviews, k + 1,
            IF cviews[k].stance = pviews[k].stance
            THEN acc + 1 * pviews[k].weight
            ELSE acc)

\* line 105: some compared pair of views is about two different issue names
NameMismatch(c, person) ==
    \E k \in 1..ZipLen(c.views, person.views) :
        IssueName(c.views[k]) # IssueName(person.views[k])

\* the list `agreements` of line 109, as the list of the scores
agreements(person, cands) ==
    [n \in 1..Len(cands) |-> c_agreements(cands[n].views, person.views, 1, 0)]

\* the exception Person.vote raises ("" if none)
VoteRaises(person, cands) ==
    IF \E n \in 1..Len(cands) : NameMismatch(cands[n], person) THEN "Exception"
    ELSE IF cands = <<>> THEN "IndexError"                             \* line 113
    ELSE ""

\* a choice that also looks at the votes a candidate already has
preferred_candidate_bandwagon(person, cands) ==
    sorted([n \in 1..Len(cands) |-> agreements(person, cands)[n] - cands[n].votes], TRUE)[1]

\* lines 112-113: the position in `candidates` of agreements[0]['candidate']
preferred_candidate(person, cands) ==
    sorted(agreements(person, cands), TRUE)[1]

\* Person.vote: the candidate list after the vote
vote(person, cands) ==
    [cands EXCEPT ![preferred_candidate(person, cands)] = receive_vote(@)]

-----------------------------------------------------------------------------
(* Majority-position synthesis (lines 25-40, 247-264) *)

IssueVotes(issue) == [issue |-> issue, stance_votes |-> [s \in Range(issue.stances) |-> 0]]

vote_for_stance(iv, stance) == [iv EXCEPT !.stance_votes[stance] = @ + 1]

\* the scan of get_majority_stance with >= for >: the last stance of the
\* greatest count wins, and a stance is reported when nobody voted
RECURSIVE majority_scan_last(_, _, _, _)
majority_scan_last(iv, k, biggest, maj_stance) ==
    IF k > Len(iv.issue.stances) THEN maj_stance
    ELSE LET s == iv.issue.stances[k]
             v == iv.stance_votes[s]
         IN  IF v >= biggest
             THEN majority_scan_last(iv, k + 1, v, s)
             ELSE majority_scan_last(iv, k + 1, biggest, maj_stance)

\* lines 33-36: the dict is iterated in insertion order, the declared order
\* of the stances
RECURSIVE majority_scan(_, _, _, _)
majority_scan(iv, k, biggest, maj_stance) ==
    IF k > Len(iv.issue.stances) THEN maj_stance
    ELSE LET s == iv.issue.stances[k]
             v == iv.stance_votes[s]
         IN  IF v > biggest
             THEN majority_scan(iv, k + 1, v, s)
             ELSE majority_scan(iv, k + 1, biggest, maj_stance)

get_majority_stance(iv) == majority_scan(iv, 1, 0, None)

\* lines 256-258: the votes of person p, from view k on
RECURSIVE tally_views(_, _, _)
tally_views(ivs, views, k) ==
    IF k > ZipLen(views, ivs) THEN ivs
    ELSE tally_views([ivs EXCEPT ![k] = vote_for_stance(@, views[k].stance)], views, k + 1)

RECURSIVE tally_people(_, _, _)
tally_people(ivs, people, p) ==
    IF p > Len(people) THEN ivs
    ELSE tally_people(tally_views(ivs, people[p].views, 1), people, p + 1)

\* lines 260-264, given the filled IssueVotes
majority_of(ivs, iss) ==
    Candidate("majority",
              [k \in 1..ZipLen(iss, ivs) |-> View(k, get_majority_stance(ivs[k]), 1)])

-----------------------------------------------------------------------------
(* run_election (lines 267-309), step by step *)

NoCandidate == [name |-> None, votes |-> 0, views |-> <<>>]

Init ==
    /\ settings \in SettingsSet
    /\ issues = <<>>
    /\ candidates = <<>>
    /\ populations = <<>>
    /\ all_people = <<>>
    /\ voted = {}
    /\ ranked = <<>>
    /\ winner = 0
    /\ loser = 0
    /\ majority_candidate = NoCandidate
    /\ maj_calls = 0
    /\ pc = "issues"
    /\ raised = ""

\* line 275
GenerateIssues ==
    /\ pc = "issues"
    /\ issues' = generate_issues(settings.issues)
    /\ pc' = "candidates"
    /\ UNCHANGED <<settings, candidates, populations, all_people, voted, ranked,
                   winner, loser, majority_candidate, maj_calls, raised>>

\* line 276
GenerateCandidates ==
    /\ pc = "candidates"
    /\ candidates' = generate_candidates(settings.candidates, issues)
    /\ pc' = "populations"
    /\ UNCHANGED <<settings, issues, populations, all_people, voted, ranked,
                   winner, loser, majority_candidate, maj_calls, raised>>

LastPopulationComplete ==
    IF populations = <<>> THEN TRUE
    ELSE Len(populations[Len(populations)].people) >= populations[Len(populations)].size

\* lines 174-184, up to self.people = ...: the next population and its views
NewPopulation ==
    /\ pc = "populations"
    /\ LastPopulationComplete
    /\ Len(populations) < Len(settings.populations)
    /\ LET pop == settings.populations[Len(populations) + 1]
       IN  populations' = Append(populations,
                                 Population(pop.name, pop.size, pop_views_of(pop, issues)))
    /\ UNCHANGED <<settings, issues, candidates, all_people, voted, ranked,
                   winner, loser, majority_candidate, maj_calls, pc, raised>>

\* lines 146-147: one more Person of the population under construction
NewPerson ==
    /\ pc = "populations"
    /\ ~LastPopulationComplete
    /\ LET n == Len(populations)
       IN  /\ PersonRaises(populations[n].population_views) = ""
           /\ \E decided \in DecideViews(populations[n].population_views) :
                populations' = [populations EXCEPT ![n].people = Append(@, Person(decided))]
    /\ UNCHANGED <<settings, issues, candidates, all_people, voted, ranked,
                   winner, loser, majority_candidate, maj_calls, pc, raised>>

\* lines 91-96: the sampling raises and the run ends
NewPersonFails ==
    /\ pc = "populations"
    /\ ~LastPopulationComplete
    /\ PersonRaises(populations[Len(populations)].population_views) # ""
    /\ raised' = PersonRaises(populations[Len(populations)].population_views)
    /\ pc' = "error"
    /\ UNCHANGED <<settings, issues, candidates, populations, all_people, voted, ranked,
                   winner, loser, majority_candidate, maj_calls>>

\* line 277 returns
StartVoting ==
    /\ pc = "populations"
    /\ LastPopulationComplete
    /\ Len(populations) = Len(settings.populations)
    /\ pc' = "voting"
    /\ UNCHANGED <<settings, issues, candidates, populations, all_people, voted, ranked,
                   winner, loser, majority_candidate, maj_calls, raised>>

Positions == {<<p, i>> : p \in 1..Len(populations), i \in 1..MaxVoters + 1}

Voters == {pos \in Positions : pos[2] <= Len(populations[pos[1]].people)}

Unvoted == Voters \ voted

\* population order, then voter order (lines 280-281)
Precedes(a, b) == a[1] < b[1] \/ (a[1] = b[1] /\ a[2] < b[2])

IsNextVoter(pos) == pos \in Unvoted /\ \A other \in Unvoted \ {pos} : Precedes(pos, other)

PersonAt(pos) == populations[pos[1]].people[pos[2]]

\* lines 282-283 for the voter at pos
DoVote(pos) ==
    /\ pc = "voting"
    /\ VoteRaises(PersonAt(pos), candidates) = ""
    /\ candidates' = vote(PersonAt(pos), candidates)
    /\ all_people' = Append(all_people, PersonAt(pos))
    /\ voted' = voted \cup {pos}
    /\ UNCHANGED <<settings, issues, populations, ranked, winner, loser,
                   majority_candidate, maj_calls, pc, raised>>

\* line 282 raises (line 106 or line 113)
DoVoteFails(pos) ==
    /\ pc = "voting"
    /\ VoteRaises(PersonAt(pos), candidates) # ""
    /\ raised' = VoteRaises(PersonAt(pos), candidates)
    /\ pc' = "error"
    /\ UNCHANGED <<settings, issues, candidates, populations, all_people, voted, ranked,
                   winner, loser, majority_candidate, maj_calls>>

CastVote == \E pos \in Positions : IsNextVoter(pos) /\ DoVote(pos)

CastVoteFails == \E pos \in Positions : IsNextVoter(pos) /\ DoVoteFails(pos)

\* sorted(candidates, key=...)[::-1] for reverse=True: candidates with equal
\* votes come out in reversed input order
ranking_reversed(cands) == sorted_unstable([n \in 1..Len(cands) |-> cands[n].votes], TRUE)

\* line 287, as the positions of the candidates in the sorted list
ranking(cands) == sorted([n \in 1..Len(cands) |-> cands[n].votes], TRUE)

\* lines 287-296
Rank ==
    /\ pc = "voting"
    /\ Unvoted = {}
    /\ candidates # <<>>
    /\ ranked' = ranking(candidates)
    /\ winner' = ranked'[1]
    /\ loser' = ranked'[Len(candidates)]
    /\ pc' = "tally"
    /\ UNCHANGED <<settings, issues, candidates, populations, all_people, voted,
                   majority_candidate, maj_calls, raised>>

\* line 292: candidates[0] of an empty list
RankFails ==
    /\ pc = "voting"
    /\ Unvoted = {}
    /\ candidates = <<>>
    /\ ranked' = <<>>
    /\ raised' = "IndexError"
    /\ pc' = "error"
    /\ UNCHANGED <<settings, issues, candidates, populations, all_people, voted,
                   winner, loser, majority_candidate, maj_calls>>

\* Issue.count_issue_vote
count_issue_vote(issue, stance) == [issue EXCEPT !.vote_totals[stance] = @ + 1]

RECURSIVE count_views(_, _, _)
count_views(iss, views, k) ==
    IF k > Len(views) THEN iss
    ELSE count_views([iss EXCEPT ![views[k].issue] = count_issue_vote(@, views[k].stance)],
                     views, k + 1)

RECURSIVE count_people(_, _, _)
count_people(iss, people, p) ==
    IF p > Len(people) THEN iss
    ELSE count_people(count_views(iss, people[p].views, 1), people, p + 1)

\* lines 298-300
CountIssueVotes ==
    /\ pc = "tally"
    /\ issues' = count_people(issues, all_people, 1)
    /\ pc' = "majority"
    /\ UNCHANGED <<settings, candidates, populations, all_people, voted, ranked,
                   winner, loser, majority_candidate, maj_calls, raised>>

\* an IssueVotes whose stance_votes is the Issue's own vote_totals dict: the
\* call counts on top of the aggregate tally and leaves its counts in it
generate_majority_candidate_aliased ==
    LET ivs0 == [k \in 1..Len(issues) |->
                    [issue |-> issues[k], stance_votes |-> issues[k].vote_totals]]
        ivs == tally_people(ivs0, all_people, 1)
    IN  /\ majority_candidate' = majority_of(ivs, issues)
        /\ issues' = [k \in 1..Len(issues) |->
                        [issues[k] EXCEPT !.vote_totals = ivs[k].stance_votes]]
        /\ maj_calls' = maj_calls + 1
        /\ UNCHANGED <<settings, candidates, populations, all_people, voted,
                       ranked, winner, loser, raised>>

\* generate_majority_candidate(all_people, issues), lines 247-264
generate_majority_candidate ==
    LET ivs0 == [k \in 1..Len(issues) |-> IssueVotes(issues[k])]
        ivs == tally_people(ivs0, all_people, 1)
    IN  /\ majority_candidate' = majority_of(ivs, issues)
        /\ maj_calls' = maj_calls + 1
        /\ UNCHANGED <<settings, issues, candidates, populations, all_people, voted,
                       ranked, winner, loser, raised>>

\* line 308
GenerateMajority ==
    /\ pc = "majority"
    /\ generate_majority_candidate
    /\ pc' = "done"

Next ==
    \/ GenerateIssues
    \/ GenerateCandidates
    \/ NewPopulation
    \/ NewPerson
    \/ NewPersonFails
    \/ StartVoting
    \/ CastVote
    \/ CastVoteFails
    \/ Rank
    \/ RankFails
    \/ CountIssueVotes
    \/ GenerateMajority

Spec == Init /\ [][Next]_vars

-----------------------------------------------------------------------------
(* The same run, with generate_majority_candidate called again on the same *)
(* voter list and issues after the run is over                             *)

CallMajorityAgain ==
    /\ pc = "done"
    /\ maj_calls < MaxCalls
    /\ generate_majority_candidate
    /\ pc' = pc

NextMaj == Next \/ CallMajorityAgain

SpecMaj == Init /\ [][NextMaj]_vars

-----------------------------------------------------------------------------
(* The same run, with the voters voting in any order *)

CastVoteAnyOrder == \E pos \in Unvoted : DoVote(pos)

CastVoteAnyOrderFails == \E pos \in Unvoted : DoVoteFails(pos)

NextAnyOrder ==
    \/ GenerateIssues
    \/ GenerateCandidates
    \/ NewPopulation
    \/ NewPerson
    \/ NewPersonFails
    \/ StartVoting
    \/ CastVoteAnyOrder
    \/ CastVoteAnyOrderFails
    \/ Rank
    \/ RankFails
    \/ CountIssueVotes
    \/ GenerateMajority

\* explored for settings of at most two candidates
InitAnyOrder == Init /\ Len(settings.candidates) <= 2

SpecAnyOrder == InitAnyOrder /\ [][NextAnyOrder]_vars

-----------------------------------------------------------------------------
(* Definitions the properties are stated with *)

Ranked == {"tally", "majority", "done"}

TotalVotes == SumSeq([n \in 1..Len(candidates) |-> candidates[n].votes])

GeneratedVoters == SumSeq([p \in 1..Len(populations) |-> Len(populations[p].people)])

\* the voter's and the candidate's view lists are equally long and about the
\* same issue at every position
Aligned(person, c) ==
    /\ Len(person.views) = Len(c.views)
    /\ \A k \in 1..Len(c.views) : IssueName(person.views[k]) = IssueName(c.views[k])

RECURSIVE SumWeights(_, _)
SumWeights(views, positions) ==
    IF positions = {} THEN 0
    ELSE LET k == CHOOSE k \in positions : TRUE
         IN  views[k].weight + SumWeights(views, positions \ {k})

\* the sum of the voter's weights over the positions where the stances agree
WeightAgreedOn(person, c) ==
    SumWeights(person.views,
               {k \in 1..Len(person.views) : person.views[k].stance = c.views[k].stance})

\* the step is a vote of the voter all_people'[Len(all_people')]
IsVoteStep == Len(all_people') = Len(all_people) + 1

-----------------------------------------------------------------------------
(* C1: at every point of a run the votes of all candidates sum to the      *)
(* number of voters that have voted, and once the voting pass is over to   *)
(* the number of voters of all populations.                                *)
C1_VoteConservation ==
    /\ TotalVotes = Len(all_people)
    /\ Len(all_people) = Cardinality(voted)
    /\ pc \in Ranked => /\ TotalVotes = GeneratedVoters
                        /\ TotalVotes = TotalSize(settings.populations)

C1_Witness ==
    /\ pc = "done"
    /\ Len(populations) = 2
    /\ TotalVotes = 2
    /\ \E n \in 1..Len(candidates) : candidates[n].votes = 1

(* C2: the candidate that receives a vote has the greatest agreement score *)
(* for the voter, and every candidate listed before it has a strictly      *)
(* smaller score: among the candidates with the greatest score the vote    *)
(* goes to the one listed first.                                           *)
C2_TieBreak ==
    [][IsVoteStep =>
        \A n \in 1..Len(candidates) :
            candidates'[n].votes # candidates[n].votes =>
                LET score == agreements(all_people'[Len(all_people')], candidates)
                IN  \A m \in 1..Len(candidates) :
                        /\ score[m] <= score[n]
                        /\ m < n => score[m] < score[n]]_vars

\* a voter has voted for whom two candidates share the greatest score
C2_Witness ==
    \E k \in 1..Len(all_people) :
        LET score == agreements(all_people[k], candidates)
        IN  /\ Len(candidates) = 2
            /\ score[1] = score[2]
            /\ score[1] > 0
            /\ candidates[1].views # candidates[2].views

(* C3: for a voter and a candidate with equally long, issue-aligned view   *)
(* lists the agreement score is the sum of the voter's weights over the    *)
(* positions where the two stances are equal, and it is not negative; the  *)
(* candidate that receives a vote has a score greater than or equal to     *)
(* that of every other candidate.                                          *)
C3_AgreementScore ==
    /\ [](\A k \in 1..Len(all_people) : \A n \in 1..Len(candidates) :
            LET score == c_agreements(candidates[n].views, all_people[k].views, 1, 0)
            IN  Aligned(all_people[k], candidates[n]) =>
                    /\ score = WeightAgreedOn(all_people[k], candidates[n])
                    /\ score >= 0)
    /\ [][IsVoteStep =>
            \A n \in 1..Len(candidates) :
                candidates'[n].votes # candidates[n].votes =>
                    LET score == agreements(all_people'[Len(all_people')], candidates)
                    IN  \A m \in 1..Len(candidates) : score[n] >= score[m]]_vars

\* a voter has voted for an aligned candidate it agrees with on one issue
\* of positive weight and disagrees with on the other
C3_Witness ==
    \E k \in 1..Len(all_people) : \E n \in 1..Len(candidates) :
        /\ Aligned(all_people[k], candidates[n])
        /\ Len(candidates[n].views) = 2
        /\ candidates[n].votes > 0
        /\ agreements(all_people[k], candidates)[n] > 0
        /\ \E i \in 1..2 : all_people[k].views[i].stance # candidates[n].views[i].stance
        /\ \E i \in 1..2 : all_people[k].views[i].weight = 0

-----------------------------------------------------------------------------
\* a candidate of the settings has no view on some declared issue
OmitsIssue(c) ==
    \E i \in 1..Len(settings.issues) :
        \A k \in 1..Len(c.views) : c.views[k].issue # settings.issues[i].name

(* C4: when a candidate's views omit a declared issue the run fails before *)
(* any voter is generated: no Person is constructed and no vote counted.   *)
C4_FailsBeforeVoters ==
    (\E n \in 1..Len(settings.candidates) : OmitsIssue(settings.candidates[n])) =>
        /\ GeneratedVoters = 0
        /\ TotalVotes = 0

(* C5: building the candidates is an error when a view names an undeclared *)
(* issue or a stance its issue does not have, so every view of every built *)
(* candidate is attached to the registry issue whose name the view         *)
(* declared and holds a legal stance of that issue.                        *)
C5_ViewsValidated ==
    \A n \in 1..Len(candidates) : \A k \in 1..Len(candidates[n].views) :
        LET view == candidates[n].views[k]
            declared == SortedCViews(settings.candidates[n])[k]
        IN  /\ IssueName(view) = declared.issue
            /\ view.stance \in Range(issues[view.issue].stances)

(* C8: in every voting comparison the voter's and the candidate's view     *)
(* lists both have one view per issue of the registry, about the same      *)
(* issue at every position; a configuration that breaks this never ends in *)
(* a counted vote.                                                         *)
C8_ComparisonsAligned ==
    \A k \in 1..Len(all_people) : \A n \in 1..Len(candidates) :
        /\ Len(all_people[k].views) = Len(issues)
        /\ Len(candidates[n].views) = Len(issues)
        /\ Aligned(all_people[k], candidates[n])

-----------------------------------------------------------------------------
\* the number of voters whose view on issue k holds stance s
StanceCount(k, s) ==
    Cardinality({j \in 1..Len(all_people) :
                    \E i \in 1..Len(all_people[j].views) :
                        /\ all_people[j].views[i].issue = k
                        /\ all_people[j].views[i].stance = s})

(* C6: the majority candidate is named "majority"; its stance on an issue  *)
(* has the greatest count among the voters' views on the issue, and is the *)
(* first such stance in the issue's declared stance order; it is None when *)
(* no voter holds a view on the issue.                                     *)
C6_MajorityStance ==
    maj_calls >= 1 =>
        /\ majority_candidate.name = "majority"
        /\ Len(majority_candidate.views) = Len(issues)
        /\ \A k \in 1..Len(issues) :
            LET stances == issues[k].stances
                m == majority_candidate.views[k].stance
            IN  /\ majority_candidate.views[k].issue = k
                /\ IF \A i \in 1..Len(stances) : StanceCount(k, stances[i]) = 0
                   THEN m = None
                   ELSE \E i \in 1..Len(stances) :
                            /\ stances[i] = m
                            /\ \A j \in 1..Len(stances) :
                                /\ StanceCount(k, stances[j]) <= StanceCount(k, m)
                                /\ j < i => StanceCount(k, stances[j]) < StanceCount(k, m)

\* two stances of issue 1 share the greatest count and the one declared
\* first was chosen
C6_Witness ==
    /\ pc = "done"
    /\ StanceCount(1, "x") = StanceCount(1, "y")
    /\ StanceCount(1, "x") > 0
    /\ majority_candidate.views[1].stance = issues[1].stances[1]

-----------------------------------------------------------------------------
IsMaxVotes(n) == \A m \in 1..Len(candidates) : candidates[m].votes <= candidates[n].votes

IsMinVotes(n) == \A m \in 1..Len(candidates) : candidates[m].votes >= candidates[n].votes

RankedDescending ==
    /\ Len(ranked) = Len(candidates)
    /\ Range(ranked) = 1..Len(candidates)
    /\ \A r \in 1..Len(ranked) - 1 :
        candidates[ranked[r]].votes >= candidates[ranked[r + 1]].votes

(* C7 as stated: the winner has the most votes and the loser the fewest,   *)
(* and of several candidates tied for the most (the fewest) votes the one  *)
(* listed first in the settings is reported.                               *)
C7_EarliestOfTied ==
    pc \in Ranked =>
        /\ RankedDescending
        /\ IsMaxVotes(winner)
        /\ \A m \in 1..Len(candidates) : IsMaxVotes(m) => winner <= m
        /\ IsMinVotes(loser)
        /\ \A m \in 1..Len(candidates) : IsMinVotes(m) => loser <= m

(* C7 amended: the winner has the most votes and is the first listed of    *)
(* the candidates tied for the most; the loser has the fewest votes and is *)
(* the last listed of the candidates tied for the fewest.                  *)
C7_WinnerFirstLoserLast ==
    pc \in Ranked =>
        /\ RankedDescending
        /\ IsMaxVotes(winner)
        /\ \A m \in 1..Len(candidates) : IsMaxVotes(m) => winner <= m
        /\ IsMinVotes(loser)
        /\ \A m \in 1..Len(candidates) : IsMinVotes(m) => loser >= m

\* two candidates are tied after a vote was cast
C7_Witness ==
    /\ pc = "done"
    /\ TotalVotes > 0
    /\ \E n, m \in 1..Len(candidates) :
        /\ n < m
        /\ candidates[n].votes = candidates[m].votes
        /\ IsMaxVotes(n) /\ IsMinVotes(n)

-----------------------------------------------------------------------------
-----------------------------------------------------------------------------
\* the candidates with their vote counters at 0
Fresh(cands) == [n \in 1..Len(cands) |-> [cands[n] EXCEPT !.votes = 0]]

\* the choice of the voter at pos among the candidates, whatever the vote
\* counters
ChoiceOf(pos) == preferred_candidate(PersonAt(pos), Fresh(candidates))

(* C10: in whatever order the voters vote, every candidate's vote count is *)
(* the number of voters that have voted whose choice, made from the        *)
(* voter's views and the candidates' stances alone, is that candidate; a   *)
(* vote adds 1 to the chosen candidate's counter and changes no other; so  *)
(* the final counts are the same for every order.                          *)
C10_OrderIndependent ==
    /\ candidates # <<>> =>
        LET choice == [pos \in voted |-> ChoiceOf(pos)]
        IN  \A n \in 1..Len(candidates) :
                candidates[n].votes = Cardinality({pos \in voted : choice[pos] = n})
    /\ pc \in Ranked => voted = Voters

\* two voters of different choices voted, the second population's first
C10_Witness ==
    /\ pc = "done"
    /\ Len(populations) = 2
    /\ Len(all_people) = 2
    /\ all_people[1] = PersonAt(<<2, 1>>)
    /\ all_people[1] # PersonAt(<<1, 1>>)
    /\ Len(candidates) = 2
    /\ candidates[1].votes = 1
    /\ candidates[2].votes = 1

====
